---- MODULE Spec2Model ----
(***************************************************************************)
(* Model of the lifecycle package (bunnier/lifecycle): an App owns a       *)
(* cancellable context, an errgroup.Group, a list of http servers and a    *)
(* list of grpc servers.  Run launches a signal-listening task and one     *)
(* task per server into the errgroup and waits for it; Stop cancels the    *)
(* context and waits for the same errgroup.                                *)
(*                                                                         *)
(* Every goroutine of the program is a process of the model:               *)
(*   - the caller of Run               (runPc, runResult)                  *)
(*   - the callers of Stop             (stopPc, stopResult)                *)
(*   - the errgroup tasks              (taskSt, outcome); task 0 is the    *)
(*     signal listener, task a >= 1 serves server a                        *)
(*   - the shutdown goroutine of each server task (watchSt)                *)
(* errgroup.Group is modelled by its fields: the sync.WaitGroup counter    *)
(* (wgCounter), the error kept by errOnce (errSlot) and its context.       *)
(***************************************************************************)
EXTENDS Integers, FiniteSets, Sequences, TLC

\* ------------------------------------------------------------------ bounds
\* Largest number of servers registered through WithHttpServer/WithGrpcServer.
MaxServers == 2
\* Number of goroutines that may call Stop.
MaxStops == 2
\* Number of goroutines that may call Stop in the behaviours checked for
\* liveness (LiveSpec).
MaxLiveStops == 1

\* ------------------------------------------------------------------ state
VARIABLES
    httpServers,      \* App.httpServers: the ids of the registered http servers
    grpcServerInfos,  \* App.grpcServerInfos: the ids of the registered grpc servers
    baseCancelled,    \* the context NewApp starts from (WithContext) was cancelled
    appCancelled,     \* the context of context.WithCancel: a.cancel() was called
    groupCancelled,   \* the context of errgroup.WithContext: the group's cancel was called
    wgCounter,        \* errgroup.Group.wg: number of tasks not yet done
    errSlot,          \* errgroup.Group.err, written under errOnce
    taskSt,           \* per task: "notLaunched","launched","spawned","serving","returned","done"
    outcome,          \* per task: the error its function returned
    watchSt,          \* per server: its shutdown goroutine: "none","waiting","stopping","done"
    serveCount,       \* per server: number of calls of ListenAndServe / net.Listen+Serve
    stopCount,        \* per server: number of calls of Shutdown / GracefulStop
    sigRegistered,    \* signal.Notify is in force for signalCh
    signalCh,         \* the buffered channel (capacity 1): "empty", "closed" or a signal
    runPc,            \* the caller of Run
    runResult,        \* what Run returned
    stopPc,           \* per caller of Stop
    stopResult,       \* per caller of Stop: what Stop returned
    panicked,         \* the process died of a sync.WaitGroup misuse panic
    logger            \* App.logger: the set of lines written to it, <<text, server>>

vars == <<httpServers, grpcServerInfos, baseCancelled, appCancelled, groupCancelled,
          wgCounter, errSlot, taskSt, outcome, watchSt, serveCount, stopCount,
          sigRegistered, signalCh, runPc, runResult, stopPc, stopResult,
          panicked, logger>>

\* ------------------------------------------------------------------ values
Servers == httpServers \cup grpcServerInfos
SignalTask == 0
Tasks == {SignalTask} \cup Servers
StopCallers == 1..MaxStops
Signals == {"SIGINT", "SIGTERM"}

\* An error value is <<message, server, cause>>; Nil is Go's nil error.
Nil == <<"nil", 0, "">>
Canceled == <<"context canceled", 0, "">>
ErrServerClosed == <<"http: Server closed", 0, "">>
ErrServerStopped == <<"grpc: the server has been stopped", 0, "">>
BindFailure == <<"listen tcp: bind", 0, "">>
RuntimeFailure == <<"serve failed", 0, "">>

\* errors.WithMessagef / errors.Wrap: nil stays nil, anything else is annotated.
WithMessagef(err, msg, a) == IF err = Nil THEN Nil ELSE <<msg, a, err[1]>>

\* Mutant of SignalErr: the signal branch of the select returns nil.
SignalErrNil(s) == Nil

\* errors.Errorf("receive os signal: %v", signal)
SignalErr(s) == <<"receive os signal", 0, s>>

\* Mutant of CtxDone: the errgroup's context is not derived from the context
\* that a.cancel cancels.
CtxDoneGroupOnly == baseCancelled \/ groupCancelled

\* Mutant of CtxDone: NewApp derives its context from context.Background()
\* and not from the context the options installed.
CtxDoneNoBase == appCancelled \/ groupCancelled

\* Mutant of CtxDone: a.ctx stays the WithCancel context, the context that
\* errgroup.WithContext returns is dropped.
CtxDoneNoGroup == baseCancelled \/ appCancelled

\* a.ctx is the errgroup's context, a child of the WithCancel context, itself
\* a child of the base context: cancelling any ancestor cancels it.
CtxDone == baseCancelled \/ appCancelled \/ groupCancelled

\* a.ctx.Err() once the context is done.
CtxErr == IF CtxDone THEN Canceled ELSE Nil

Min(S) == CHOOSE x \in S : \A y \in S : x <= y

\* ------------------------------------------------------------------ NewApp
\* The state after NewApp(opts...): the options registered some http and grpc
\* servers and possibly a base context; nothing is cancelled, nothing runs.
Init ==
    /\ \E h \in 0..MaxServers : \E g \in 0..(MaxServers - h) :
          /\ httpServers = 1..h
          /\ grpcServerInfos = (h + 1)..(h + g)
    /\ baseCancelled = FALSE
    /\ appCancelled = FALSE
    /\ groupCancelled = FALSE
    /\ wgCounter = 0
    /\ errSlot = Nil
    /\ taskSt = [t \in 0..MaxServers |-> "notLaunched"]
    /\ outcome = [t \in 0..MaxServers |-> Nil]
    /\ watchSt = [a \in 1..MaxServers |-> "none"]
    /\ serveCount = [a \in 1..MaxServers |-> 0]
    /\ stopCount = [a \in 1..MaxServers |-> 0]
    /\ sigRegistered = FALSE
    /\ signalCh = "empty"
    /\ runPc = "idle"
    /\ runResult = Nil
    /\ stopPc = [k \in StopCallers |-> "idle"]
    /\ stopResult = [k \in StopCallers |-> Nil]
    /\ panicked = FALSE
    /\ logger = {}

\* ------------------------------------------------------------------ errgroup
\* Mutant of ErrOnce: no errOnce, every non-nil error overwrites g.err.
ErrLast(slot, err) == IF err # Nil THEN err ELSE slot

\* errgroup.Group.Go's errOnce.Do: the first non-nil error a task returns is
\* kept in g.err; later ones are dropped.
ErrOnce(slot, err) == IF err # Nil /\ slot = Nil THEN err ELSE slot

\* Mutant of ErrOnceCancels: a group made without WithContext, whose first
\* error cancels nothing.
ErrNeverCancels(slot, err) == FALSE

\* errOnce.Do also calls the group's cancel when it keeps an error.
ErrOnceCancels(slot, err) == err # Nil /\ slot = Nil

\* sync.WaitGroup: a goroutine parked in Wait is released when the counter
\* reaches zero.
Release(pc, counter) == IF pc = "waiting" /\ counter = 0 THEN "woken" ELSE pc

\* Mutant of WaitReady: Wait does not block.
WaitNoBlock(counter) == TRUE

\* sync.WaitGroup.Wait returns at once when the counter is zero.
WaitReady(counter) == counter = 0

\* The deferred g.done() of errgroup.Group.Go, after errOnce: task t's goroutine
\* ends, its error (if it is the first) is kept and cancels the group's context,
\* the WaitGroup counter drops and the goroutines parked in Wait are released.
TaskDone(t) ==
    /\ ~panicked
    /\ taskSt[t] = "returned"
    /\ errSlot' = ErrOnce(errSlot, outcome[t])
    /\ groupCancelled' = (groupCancelled \/ ErrOnceCancels(errSlot, outcome[t]))
    /\ wgCounter' = wgCounter - 1
    /\ taskSt' = [taskSt EXCEPT ![t] = "done"]
    /\ runPc' = Release(runPc, wgCounter')
    /\ stopPc' = [k \in StopCallers |-> Release(stopPc[k], wgCounter')]
    /\ UNCHANGED <<logger, httpServers, grpcServerInfos, baseCancelled, appCancelled, outcome,
                   watchSt, serveCount, stopCount, sigRegistered, signalCh,
                   runResult, stopResult, panicked>>

\* errgroup.Group.Go(f): wg.Add(1) and a new goroutine for task t.
Go(t) ==
    /\ wgCounter' = wgCounter + 1
    /\ taskSt' = [taskSt EXCEPT ![t] = "launched"]

NotLaunched(S) == {a \in S : taskSt[a] = "notLaunched"}

\* Mutant of RunPcAfter: Run gives up launching servers once a.ctx is done.
RunPcAfterCancelled(launched) ==
    IF CtxDone THEN "Wait"
    ELSE IF NotLaunched(httpServers) \ launched # {} THEN "startHttpServers"
    ELSE IF NotLaunched(grpcServerInfos) \ launched # {} THEN "startGrpcServers"
    ELSE "Wait"

\* Where Run continues once the tasks in `launched` are launched: the loop of
\* startHttpServers, then the loop of startGrpcServers, then errGroup.Wait().
RunPcAfter(launched) ==
    IF NotLaunched(httpServers) \ launched # {} THEN "startHttpServers"
    ELSE IF NotLaunched(grpcServerInfos) \ launched # {} THEN "startGrpcServers"
    ELSE "Wait"

\* One iteration of the loop of startHttpServers / startGrpcServers:
\* errGroup.Go launches the task of server a.  The task's first statement,
\* go func() { <-a.ctx.Done(); ... }(), is taken with the launch: it reads and
\* writes nothing shared, the shutdown goroutine it starts only waits.
LaunchServer(a) ==
    /\ wgCounter' = wgCounter + 1
    /\ taskSt' = [taskSt EXCEPT ![a] = "spawned"]
    /\ watchSt' = [watchSt EXCEPT ![a] = "waiting"]
    /\ runPc' = RunPcAfter({a})

\* ------------------------------------------------------------------ Run
\* Run, first statement: a.startListenSystemSignal() launches the signal task.
startListenSystemSignal ==
    /\ ~panicked
    /\ runPc = "idle"
    /\ Go(SignalTask)
    /\ runPc' = RunPcAfter({})
    /\ UNCHANGED <<logger, httpServers, grpcServerInfos, baseCancelled, appCancelled,
                   groupCancelled, errSlot, outcome, watchSt, serveCount,
                   stopCount, sigRegistered, signalCh, runResult, stopPc,
                   stopResult, panicked>>

\* Run, second statement: an iteration of the loop over a.httpServers, in
\* registration order.
startHttpServers ==
    /\ ~panicked
    /\ runPc = "startHttpServers"
    /\ LaunchServer(Min(NotLaunched(httpServers)))
    /\ UNCHANGED <<logger, httpServers, grpcServerInfos, baseCancelled, appCancelled,
                   groupCancelled, errSlot, outcome, serveCount,
                   stopCount, sigRegistered, signalCh, runResult, stopPc,
                   stopResult, panicked>>

\* Run, third statement: an iteration of the loop over a.grpcServerInfos.
startGrpcServers ==
    /\ ~panicked
    /\ runPc = "startGrpcServers"
    /\ LaunchServer(Min(NotLaunched(grpcServerInfos)))
    /\ UNCHANGED <<logger, httpServers, grpcServerInfos, baseCancelled, appCancelled,
                   groupCancelled, errSlot, outcome, serveCount,
                   stopCount, sigRegistered, signalCh, runResult, stopPc,
                   stopResult, panicked>>

\* Run, last statement: return a.errGroup.Wait().  errgroup's Wait is
\* wg.Wait(); g.cancel(); return g.err.  With the counter at zero it returns
\* at once, otherwise the caller parks.
RunWait ==
    /\ ~panicked
    /\ runPc = "Wait"
    /\ IF WaitReady(wgCounter)
       THEN /\ runPc' = "returned"
            /\ runResult' = errSlot
            /\ groupCancelled' = TRUE
       ELSE /\ runPc' = "waiting"
            /\ UNCHANGED <<runResult, groupCancelled>>
    /\ UNCHANGED <<logger, httpServers, grpcServerInfos, baseCancelled, appCancelled,
                   wgCounter, errSlot, taskSt, outcome, watchSt, serveCount,
                   stopCount, sigRegistered, signalCh, stopPc, stopResult, panicked>>

\* Run's Wait was released.  sync.WaitGroup panics ("WaitGroup is reused before
\* previous Wait has returned") when the counter is no longer zero by then.
RunWaitResume ==
    /\ ~panicked
    /\ runPc = "woken"
    /\ IF WaitReady(wgCounter)
       THEN /\ runPc' = "returned"
            /\ runResult' = errSlot
            /\ groupCancelled' = TRUE
            /\ UNCHANGED panicked
       ELSE /\ panicked' = TRUE
            /\ UNCHANGED <<runPc, runResult, groupCancelled>>
    /\ UNCHANGED <<logger, httpServers, grpcServerInfos, baseCancelled, appCancelled,
                   wgCounter, errSlot, taskSt, outcome, watchSt, serveCount,
                   stopCount, sigRegistered, signalCh, stopPc, stopResult>>

Run ==
    \/ startListenSystemSignal
    \/ startHttpServers
    \/ startGrpcServers
    \/ RunWait
    \/ RunWaitResume

\* ------------------------------------------------------------------ Stop
\* Stop, first two statements: the log line and a.cancel().
StopCancel(k) ==
    /\ ~panicked
    /\ stopPc[k] = "idle"
    /\ \A j \in StopCallers : j < k => stopPc[j] # "idle"
    /\ appCancelled' = TRUE
    /\ stopPc' = [stopPc EXCEPT ![k] = "Wait"]
    /\ logger' = logger \cup {<<"start to stop app...", 0>>}
    /\ UNCHANGED <<httpServers, grpcServerInfos, baseCancelled, groupCancelled,
                   wgCounter, errSlot, taskSt, outcome, watchSt, serveCount,
                   stopCount, sigRegistered, signalCh, runPc, runResult,
                   stopResult, panicked>>

\* Stop, last statement: return a.errGroup.Wait().
StopWait(k) ==
    /\ ~panicked
    /\ stopPc[k] = "Wait"
    /\ IF WaitReady(wgCounter)
       THEN /\ stopPc' = [stopPc EXCEPT ![k] = "returned"]
            /\ stopResult' = [stopResult EXCEPT ![k] = errSlot]
            /\ groupCancelled' = TRUE
       ELSE /\ stopPc' = [stopPc EXCEPT ![k] = "waiting"]
            /\ UNCHANGED <<stopResult, groupCancelled>>
    /\ UNCHANGED <<logger, httpServers, grpcServerInfos, baseCancelled, appCancelled,
                   wgCounter, errSlot, taskSt, outcome, watchSt, serveCount,
                   stopCount, sigRegistered, signalCh, runPc, runResult, panicked>>

\* Stop's Wait was released (see RunWaitResume).
StopWaitResume(k) ==
    /\ ~panicked
    /\ stopPc[k] = "woken"
    /\ IF WaitReady(wgCounter)
       THEN /\ stopPc' = [stopPc EXCEPT ![k] = "returned"]
            /\ stopResult' = [stopResult EXCEPT ![k] = errSlot]
            /\ groupCancelled' = TRUE
            /\ UNCHANGED panicked
       ELSE /\ panicked' = TRUE
            /\ UNCHANGED <<stopPc, stopResult, groupCancelled>>
    /\ UNCHANGED <<logger, httpServers, grpcServerInfos, baseCancelled, appCancelled,
                   wgCounter, errSlot, taskSt, outcome, watchSt, serveCount,
                   stopCount, sigRegistered, signalCh, runPc, runResult>>

Stop(k) ==
    \/ StopCancel(k)
    \/ StopWait(k)
    \/ StopWaitResume(k)

\* sync.WaitGroup panics ("WaitGroup misuse: Add called concurrently with
\* Wait") when Run's next errGroup.Go adds to the counter while a goroutine
\* released from Wait has not returned yet.
RunAboutToGo == runPc \in {"startHttpServers", "startGrpcServers"}

WaitGroupMisuse ==
    /\ ~panicked
    /\ RunAboutToGo
    /\ \E k \in StopCallers : stopPc[k] = "woken"
    /\ panicked' = TRUE
    /\ UNCHANGED <<logger, httpServers, grpcServerInfos, baseCancelled, appCancelled,
                   groupCancelled, wgCounter, errSlot, taskSt, outcome, watchSt,
                   serveCount, stopCount, sigRegistered, signalCh, runPc,
                   runResult, stopPc, stopResult>>

\* ------------------------------------------------------------------ server tasks
\* Mutant of Captured: without srv := srv the closures share the loop
\* variable and all see the last server of the list.
CapturedShared(a) ==
    LET list == IF a \in httpServers THEN httpServers ELSE grpcServerInfos
    IN  CHOOSE x \in list : \A y \in list : y <= x

\* srv := srv at the top of the loop body: the closures launched in iteration a
\* (the task and its shutdown goroutine) hold the server of that iteration.
Captured(a) == a

\* srv.Shutdown / GracefulStop has been called on server a.
StopRequested(a) == watchSt[a] \in {"stopping", "done"}

\* a.logger.Printf("start http server: %v\n", srv.Addr) and its grpc twin.
StartMessage(a) ==
    IF a \in httpServers THEN "start http server" ELSE "start grpc server"

\* The task function logs and enters its blocking call: srv.ListenAndServe() for an
\* http server, net.Listen followed by GrpcServer.Serve(tcp) for a grpc server.
TaskServe(a) ==
    /\ ~panicked
    /\ a \in Servers
    /\ taskSt[a] = "spawned"
    /\ a \in grpcServerInfos => watchSt[a] # "done"
    /\ taskSt' = [taskSt EXCEPT ![a] = "serving"]
    /\ serveCount' = [serveCount EXCEPT ![Captured(a)] = @ + 1]
    /\ logger' = logger \cup {<<StartMessage(a), Captured(a)>>}
    /\ UNCHANGED <<httpServers, grpcServerInfos, baseCancelled, appCancelled,
                   groupCancelled, wgCounter, errSlot, outcome, watchSt,
                   stopCount, sigRegistered, signalCh, runPc, runResult, stopPc,
                   stopResult, panicked>>

\* startGrpcServers: net.Listen fails; the task returns
\* errors.Wrap(err, "grpc startup: tcp") without calling Serve.
GrpcListenFail(a) ==
    /\ ~panicked
    /\ a \in grpcServerInfos
    /\ taskSt[a] = "spawned"
    /\ taskSt' = [taskSt EXCEPT ![a] = "returned"]
    /\ serveCount' = [serveCount EXCEPT ![Captured(a)] = @ + 1]
    /\ outcome' = [outcome EXCEPT ![a] = WithMessagef(BindFailure, "grpc startup: tcp", a)]
    /\ logger' = logger \cup {<<StartMessage(a), Captured(a)>>}
    /\ UNCHANGED <<httpServers, grpcServerInfos, baseCancelled, appCancelled,
                   groupCancelled, wgCounter, errSlot, watchSt, stopCount,
                   sigRegistered, signalCh, runPc, runResult, stopPc,
                   stopResult, panicked>>

\* startGrpcServers: GracefulStop ran before Serve was entered; grpc's Serve
\* then returns ErrServerStopped.
GrpcServeAfterStop(a) ==
    /\ ~panicked
    /\ a \in grpcServerInfos
    /\ taskSt[a] = "spawned"
    /\ StopRequested(a)
    /\ taskSt' = [taskSt EXCEPT ![a] = "returned"]
    /\ serveCount' = [serveCount EXCEPT ![Captured(a)] = @ + 1]
    /\ outcome' = [outcome EXCEPT ![a] = WithMessagef(ErrServerStopped, "grpc server exit", a)]
    /\ logger' = logger \cup {<<StartMessage(a), Captured(a)>>}
    /\ UNCHANGED <<httpServers, grpcServerInfos, baseCancelled, appCancelled,
                   groupCancelled, wgCounter, errSlot, watchSt, stopCount,
                   sigRegistered, signalCh, runPc, runResult, stopPc,
                   stopResult, panicked>>

\* The error a serving server fails with on its own: ListenAndServe binds
\* inside the call (a later failure of its accept loop takes the same path),
\* grpc's Serve runs on a socket already bound.
OwnFailure(a) == IF a \in httpServers THEN BindFailure ELSE RuntimeFailure

ExitMessage(a) ==
    IF a \in httpServers THEN "http server exit" ELSE "grpc server exit"

\* The blocking call fails on its own (no stop was requested of this server);
\* the task returns errors.WithMessagef(err, "... server exit: %s", addr).
ServeFail(a) ==
    /\ ~panicked
    /\ a \in Servers
    /\ taskSt[a] = "serving"
    /\ ~StopRequested(a)
    /\ outcome' = [outcome EXCEPT ![a] = WithMessagef(OwnFailure(a), ExitMessage(a), a)]
    /\ taskSt' = [taskSt EXCEPT ![a] = "returned"]
    /\ UNCHANGED <<logger, httpServers, grpcServerInfos, baseCancelled, appCancelled,
                   groupCancelled, wgCounter, errSlot, watchSt, serveCount,
                   stopCount, sigRegistered, signalCh, runPc, runResult, stopPc,
                   stopResult, panicked>>

\* What the blocking call returns once the server was asked to stop:
\* ListenAndServe always returns a non-nil error, ErrServerClosed after
\* Shutdown; grpc's Serve returns nil after GracefulStop.
StoppedError(a) == IF a \in httpServers THEN ErrServerClosed ELSE Nil

\* When the blocking call may return after a stop request: ListenAndServe
\* returns as soon as Shutdown is called, grpc's Serve blocks until
\* GracefulStop is done.
StoppedReturnReady(a) ==
    IF a \in httpServers THEN StopRequested(a) ELSE watchSt[a] = "done"

\* The blocking call returns because the server was stopped.
ServeStopped(a) ==
    /\ ~panicked
    /\ a \in Servers
    /\ taskSt[a] = "serving"
    /\ StoppedReturnReady(a)
    /\ taskSt' = [taskSt EXCEPT ![a] = "returned"]
    /\ outcome' = [outcome EXCEPT ![a] = WithMessagef(StoppedError(a), ExitMessage(a), a)]
    /\ UNCHANGED <<logger, httpServers, grpcServerInfos, baseCancelled, appCancelled,
                   groupCancelled, wgCounter, errSlot, watchSt, serveCount,
                   stopCount, sigRegistered, signalCh, runPc, runResult, stopPc,
                   stopResult, panicked>>

\* ------------------------------------------------------------------ shutdown goroutines
\* Mutant of WatcherReady: the shutdown goroutine does not wait for Done.
WatcherNoWait(a) == TRUE

\* <-a.ctx.Done() of a server's shutdown goroutine.
WatcherReady(a) == CtxDone

\* a.logger.Printf("start to shutdown http server: %v\n", srv.Addr) and its
\* grpc twin.
ShutdownMessage(a) ==
    IF a \in httpServers THEN "start to shutdown http server"
    ELSE "start to shutdown grpc server"

\* The shutdown goroutine of server a: <-a.ctx.Done() returned, it logs and
\* calls srv.Shutdown(context.TODO()) / srv.GrpcServer.GracefulStop().
WatcherFire(a) ==
    /\ ~panicked
    /\ a \in Servers
    /\ watchSt[a] = "waiting"
    /\ WatcherReady(a)
    /\ watchSt' = [watchSt EXCEPT ![a] = "stopping"]
    /\ stopCount' = [stopCount EXCEPT ![Captured(a)] = @ + 1]
    /\ logger' = logger \cup {<<ShutdownMessage(a), Captured(a)>>}
    /\ UNCHANGED <<httpServers, grpcServerInfos, baseCancelled, appCancelled,
                   groupCancelled, wgCounter, errSlot, taskSt, outcome,
                   serveCount, sigRegistered, signalCh, runPc, runResult, stopPc,
                   stopResult, panicked>>

\* Shutdown / GracefulStop returns: the server has drained.
WatcherDone(a) ==
    /\ ~panicked
    /\ a \in Servers
    /\ watchSt[a] = "stopping"
    /\ watchSt' = [watchSt EXCEPT ![a] = "done"]
    /\ UNCHANGED <<logger, httpServers, grpcServerInfos, baseCancelled, appCancelled,
                   groupCancelled, wgCounter, errSlot, taskSt, outcome,
                   serveCount, stopCount, sigRegistered, signalCh, runPc,
                   runResult, stopPc, stopResult, panicked>>

\* ------------------------------------------------------------------ signal task
\* signalCh := make(chan os.Signal, 1); signal.Notify(signalCh, SIGINT, SIGTERM).
SignalNotify ==
    /\ ~panicked
    /\ taskSt[SignalTask] = "launched"
    /\ taskSt' = [taskSt EXCEPT ![SignalTask] = "serving"]
    /\ sigRegistered' = TRUE
    /\ UNCHANGED <<logger, httpServers, grpcServerInfos, baseCancelled, appCancelled,
                   groupCancelled, wgCounter, errSlot, outcome, watchSt,
                   serveCount, stopCount, signalCh, runPc, runResult, stopPc,
                   stopResult, panicked>>

\* select, case <-a.ctx.Done(): signal.Stop(signalCh); close(signalCh);
\* return a.ctx.Err().
SignalCtxDone ==
    /\ ~panicked
    /\ taskSt[SignalTask] = "serving"
    /\ CtxDone
    /\ sigRegistered' = FALSE
    /\ signalCh' = "closed"
    /\ outcome' = [outcome EXCEPT ![SignalTask] = CtxErr]
    /\ taskSt' = [taskSt EXCEPT ![SignalTask] = "returned"]
    /\ UNCHANGED <<logger, httpServers, grpcServerInfos, baseCancelled, appCancelled,
                   groupCancelled, wgCounter, errSlot, watchSt, serveCount,
                   stopCount, runPc, runResult, stopPc, stopResult, panicked>>

\* select, case signal := <-signalCh: return errors.Errorf("receive os signal: %v", signal).
SignalReceived ==
    /\ ~panicked
    /\ taskSt[SignalTask] = "serving"
    /\ signalCh \in Signals
    /\ outcome' = [outcome EXCEPT ![SignalTask] = SignalErr(signalCh)]
    /\ signalCh' = "empty"
    /\ taskSt' = [taskSt EXCEPT ![SignalTask] = "returned"]
    /\ UNCHANGED <<logger, httpServers, grpcServerInfos, baseCancelled, appCancelled,
                   groupCancelled, wgCounter, errSlot, watchSt, serveCount,
                   stopCount, sigRegistered, runPc, runResult, stopPc,
                   stopResult, panicked>>

\* ------------------------------------------------------------------ environment
\* The os/signal package delivers SIGINT or SIGTERM to the registered channel
\* while the signal task is in its select; its send does not block, so a
\* signal is dropped when the buffer is full.  A signal that arrives after the
\* task left the select is read by nobody and is left out.
OsSignal(s) ==
    /\ ~panicked
    /\ sigRegistered
    /\ taskSt[SignalTask] = "serving"
    /\ signalCh = "empty"
    /\ signalCh' = s
    /\ UNCHANGED <<logger, httpServers, grpcServerInfos, baseCancelled, appCancelled,
                   groupCancelled, wgCounter, errSlot, taskSt, outcome, watchSt,
                   serveCount, stopCount, sigRegistered, runPc, runResult,
                   stopPc, stopResult, panicked>>

\* The owner of the context given through WithContext cancels it (with the
\* default context.Background() this never happens).  When a.ctx is already
\* done the cancellation changes nothing the program reads, and is left out.
BaseCancel ==
    /\ ~panicked
    /\ ~CtxDone
    /\ baseCancelled' = TRUE
    /\ UNCHANGED <<logger, httpServers, grpcServerInfos, appCancelled, groupCancelled,
                   wgCounter, errSlot, taskSt, outcome, watchSt, serveCount,
                   stopCount, sigRegistered, signalCh, runPc, runResult, stopPc,
                   stopResult, panicked>>

\* ------------------------------------------------------------------ specification
\* The steps of the program's goroutines and of its environment, but for the
\* calls of Stop.
Steps ==
    \/ startListenSystemSignal
    \/ startHttpServers
    \/ startGrpcServers
    \/ RunWait
    \/ RunWaitResume
    \/ \E k \in StopCallers : StopWait(k)
    \/ \E k \in StopCallers : StopWaitResume(k)
    \/ WaitGroupMisuse
    \/ \E t \in 0..MaxServers : TaskDone(t)
    \/ \E a \in 1..MaxServers : TaskServe(a)
    \/ \E a \in 1..MaxServers : GrpcListenFail(a)
    \/ \E a \in 1..MaxServers : GrpcServeAfterStop(a)
    \/ \E a \in 1..MaxServers : ServeFail(a)
    \/ \E a \in 1..MaxServers : ServeStopped(a)
    \/ \E a \in 1..MaxServers : WatcherFire(a)
    \/ \E a \in 1..MaxServers : WatcherDone(a)
    \/ SignalNotify
    \/ SignalCtxDone
    \/ SignalReceived
    \/ \E s \in Signals : OsSignal(s)
    \/ BaseCancel

Next == Steps \/ \E k \in StopCallers : StopCancel(k)

\* The same with at most MaxLiveStops callers of Stop.
LiveNext == Steps \/ \E k \in StopCallers : k <= MaxLiveStops /\ StopCancel(k)

Spec == Init /\ [][Next]_vars

\* The steps the Go scheduler and the servers' contract guarantee to happen
\* once they can: every goroutine that is runnable eventually runs, a released
\* Wait returns, Shutdown/GracefulStop return, and a blocking serve call returns
\* once its server was stopped.  Calls of Stop, signals, cancellation of the
\* base context and failures of a server are up to the environment.
Progress ==
    \/ startListenSystemSignal
    \/ startHttpServers
    \/ startGrpcServers
    \/ RunWait
    \/ RunWaitResume
    \/ \E k \in StopCallers : StopWait(k)
    \/ \E k \in StopCallers : StopWaitResume(k)
    \/ \E t \in 0..MaxServers : TaskDone(t)
    \/ \E a \in 1..MaxServers : TaskServe(a)
    \/ \E a \in 1..MaxServers : GrpcServeAfterStop(a)
    \/ \E a \in 1..MaxServers : ServeStopped(a)
    \/ \E a \in 1..MaxServers : WatcherFire(a)
    \/ \E a \in 1..MaxServers : WatcherDone(a)
    \/ SignalNotify
    \/ SignalCtxDone
    \/ SignalReceived

\* Every step changes the state for good (a goroutine moves on, a counter
\* moves, a flag is set once), so a behaviour is a finite run followed by
\* stuttering; weak fairness of Progress says the run does not stop while one
\* of the guaranteed steps can be taken, which is weak fairness of each of them.
LiveSpec == Init /\ [][LiveNext]_vars /\ WF_vars(Progress)

\* ------------------------------------------------------------------ vocabulary of the properties
\* Some goroutine has called Stop.
StopCalled == \E k \in StopCallers : stopPc[k] # "idle"

\* The servers whose blocking call failed on its own (bind or runtime failure),
\* as opposed to returning because the server was stopped.
ownFailed ==
    {a \in Servers : /\ taskSt[a] \in {"returned", "done"}
                     /\ outcome[a][3] \in {BindFailure[1], RuntimeFailure[1]}}

\* The signal task left its select through the signal branch.
SigTaken == outcome[SignalTask][1] = "receive os signal"

\* A signal sits in the channel, not yet read.
SigPending == signalCh \in Signals

\* Run has made all its errGroup.Go calls.
LaunchedAll == runPc \in {"Wait", "waiting", "woken", "returned"}

\* The blocking call of server a has returned.
ServeReturned(a) == taskSt[a] \in {"returned", "done"}

\* One of the events that start a shutdown has occurred.
Trigger == StopCalled \/ baseCancelled \/ ownFailed # {} \/ SigTaken \/ SigPending

\* ------------------------------------------------------------------ C1
\* C1 (as claimed): when Stop was called, no server failed on its own, no
\* signal arrived and the base context was not cancelled, Run returns nil.
\* The code contradicts it: the signal task returns a.ctx.Err(), a non-nil
\* error, and ListenAndServe returns ErrServerClosed, so errgroup keeps an error.
C1_OrderlyStopIsSuccess ==
    (/\ runPc = "returned"
     /\ StopCalled
     /\ ownFailed = {}
     /\ ~SigTaken
     /\ ~SigPending
     /\ ~baseCancelled) => runResult = Nil

\* ------------------------------------------------------------------ C3
\* C3: whatever the interleaving of Run, the Stop calls, signals and failures,
\* the blocking call of each server is made at most once and its
\* Shutdown/GracefulStop is called at most once.
C3_AtMostOnce ==
    \A a \in Servers : serveCount[a] <= 1 /\ stopCount[a] <= 1

\* Two Stop calls are parked in Wait at once, and a server that was served has
\* been asked to stop.
C3_Witness ==
    /\ MaxStops >= 2
    /\ \A k \in 1..2 : stopPc[k] = "waiting"
    /\ \E a \in Servers : serveCount[a] = 1 /\ stopCount[a] = 1

\* ------------------------------------------------------------------ C5
\* C5: once Run has returned, the signal task and the task of every registered
\* server are done (no blocking call is still in progress).
C5_RunJoinsAllTasks ==
    runPc = "returned" => \A t \in Tasks : taskSt[t] = "done"

\* Run has returned with an http and a grpc server registered.
C5_Witness ==
    /\ runPc = "returned"
    /\ httpServers # {}
    /\ grpcServerInfos # {}

\* ------------------------------------------------------------------ C6
\* C6 (as claimed): whenever a Stop call returns while Run has been called,
\* the blocking call of every registered server has returned.  The code
\* contradicts it: a Stop whose Wait finds the WaitGroup counter at zero
\* between two errGroup.Go calls of Run returns while servers are yet to start.
C6_StopIsSynchronous ==
    [][\A k \in StopCallers :
          (stopPc[k] # "returned" /\ stopPc'[k] = "returned" /\ runPc # "idle")
             => \A a \in Servers : ServeReturned(a)']_vars

\* ------------------------------------------------------------------ C7
\* C7 (as claimed): neither Run nor Stop returns while a shutdown goroutine
\* is inside Shutdown/GracefulStop, its drain not yet complete.  The code
\* contradicts it: the shutdown goroutines are not part of the errgroup, and
\* ListenAndServe returns as soon as Shutdown is called.
C7_DrainIsAwaited ==
    [][(\/ runPc # "returned" /\ runPc' = "returned"
        \/ \E k \in StopCallers : stopPc[k] # "returned" /\ stopPc'[k] = "returned")
          => \A a \in Servers : watchSt[a] # "stopping"]_vars

\* ------------------------------------------------------------------ C9
\* C9: Run has returned, or some server was asked to stop, only if a trigger
\* occurred: a Stop call, a cancelled base context, a server failing on its
\* own or a signal.
C9_RunBlocksWithoutTrigger ==
    (runPc = "returned" \/ \E a \in Servers : stopCount[a] > 0) => Trigger

\* Run is parked in Wait, every server is serving and nothing has happened.
C9_Witness ==
    /\ runPc = "waiting"
    /\ Servers # {}
    /\ \A a \in Servers : taskSt[a] = "serving"
    /\ taskSt[SignalTask] = "serving"
    /\ ~Trigger

\* ------------------------------------------------------------------ C10
\* Every launched task of the group is done.
AllTasksDone == \A t \in Tasks : taskSt[t] = "done"

\* C10: the error kept by the group never changes once set; it is the error
\* returned by a task that is done, namely the first task that completed with
\* a non-nil error; and a Run or Stop that returns when all tasks are done
\* returns exactly that error.
C10_FirstErrorWriteOnce ==
    /\ [][errSlot # Nil => errSlot' = errSlot]_vars
    /\ [](errSlot # Nil =>
            \E t \in Tasks : taskSt[t] = "done" /\ outcome[t] = errSlot)
    /\ [][\A t \in Tasks :
            (taskSt[t] = "returned" /\ taskSt'[t] = "done"
               /\ errSlot = Nil /\ outcome[t] # Nil) => errSlot' = outcome[t]]_vars
    /\ [][(runPc # "returned" /\ runPc' = "returned" /\ AllTasksDone)
            => runResult' = errSlot']_vars
    /\ [][\A k \in StopCallers :
            (stopPc[k] # "returned" /\ stopPc'[k] = "returned" /\ AllTasksDone)
               => stopResult'[k] = errSlot']_vars
    /\ [](runPc = "returned" => runResult = errSlot)

\* Two servers failed on their own, the group kept the failure of the one
\* launched second, and Run and a Stop returned it.
C10_Witness ==
    /\ ownFailed = {1, 2}
    /\ AllTasksDone
    /\ errSlot = outcome[2]
    /\ errSlot # outcome[1]
    /\ runPc = "returned" /\ runResult = errSlot
    /\ stopPc[1] = "returned" /\ stopResult[1] = errSlot

\* ------------------------------------------------------------------ C2
\* No Stop call released from Wait is about to find the counter raised again
\* (the sync.WaitGroup misuse of a Stop that raced with Run's launches).
NoStaleWake == \A k \in StopCallers : stopPc[k] = "woken" => wgCounter = 0

\* The shutdown is complete as seen by Stop caller k.
FullShutdown(k) ==
    /\ CtxDone
    /\ \A a \in Servers : stopCount[a] >= 1 /\ ServeReturned(a)
    /\ taskSt[SignalTask] \in {"returned", "done"}
    /\ runPc = "returned"
    /\ stopPc[k] = "returned"

\* C2: when Run has launched all its tasks and Stop has been called, then
\* eventually the context is cancelled, every server was asked to stop, every
\* blocking call has returned, the signal task has ended, and Run and that
\* Stop have returned.
C2_StopLeadsToShutdown ==
    \A k \in StopCallers :
        (LaunchedAll /\ stopPc[k] # "idle" /\ NoStaleWake /\ ~panicked)
            ~> FullShutdown(k)

\* A shutdown that only a Stop call can have started has completed.
C2_Witness ==
    /\ FullShutdown(1)
    /\ AllTasksDone
    /\ httpServers # {} /\ grpcServerInfos # {}
    /\ ownFailed = {}
    /\ ~SigTaken
    /\ ~baseCancelled
    /\ stopResult[1] = errSlot

SignalShutdown(s) ==
    /\ \A a \in Servers : stopCount[a] >= 1 /\ ServeReturned(a)
    /\ runPc = "returned"
    /\ runResult = SignalErr(s)

\* C8 (as claimed): a signal delivered while Run is running, with no server
\* failure and no Stop call, leads to all servers stopped and Run returning
\* the error that names the signal.
C8_SignalEqualsStop ==
    \A s \in Signals :
        (signalCh = s /\ runPc # "returned" /\ ownFailed = {} /\ ~StopCalled)
            ~> (SignalShutdown(s) \/ ownFailed # {} \/ StopCalled)

\* C8 (amended): the same, provided the base context is not cancelled.
C8_SignalEqualsStopAmended ==
    \A s \in Signals :
        (signalCh = s /\ runPc # "returned" /\ ownFailed = {} /\ ~StopCalled
            /\ ~baseCancelled)
            ~> (SignalShutdown(s) \/ ownFailed # {} \/ StopCalled \/ baseCancelled)

\* Run returned the error naming SIGTERM after both servers were stopped, and
\* nothing but the signal had happened.
C8_Witness ==
    /\ SignalShutdown("SIGTERM")
    /\ httpServers # {} /\ grpcServerInfos # {}
    /\ ownFailed = {}
    /\ ~StopCalled /\ ~baseCancelled

\* ------------------------------------------------------------------ C11
\* C11: Shutdown/GracefulStop is called on a server only when the shared
\* context is cancelled (in every state, and at the step that makes the call),
\* and a cancelled context stays cancelled.
C11_StopOnlyAfterCancel ==
    /\ [](\A a \in Servers : stopCount[a] > 0 => CtxDone)
    /\ [][\A a \in Servers : stopCount'[a] # stopCount[a] => CtxDone]_vars
    /\ [][CtxDone => CtxDone']_vars

\* A server is serving, its Shutdown/GracefulStop was called after a Stop
\* cancelled the context, and another server has not been asked to stop yet.
C11_Witness ==
    /\ appCancelled /\ ~baseCancelled /\ ~groupCancelled
    /\ \E a \in Servers : stopCount[a] = 1 /\ taskSt[a] = "serving"
    /\ \E b \in Servers : stopCount[b] = 0 /\ watchSt[b] = "waiting"

\* ------------------------------------------------------------------ C12
\* C12 (as claimed): once the signal task has ended, signal.Notify is no
\* longer in force for its channel.  The code contradicts it: only the
\* case <-a.ctx.Done() branch calls signal.Stop; the branch that received a
\* signal returns with the channel still registered.
C12_SignalRegistrationReleased ==
    taskSt[SignalTask] \in {"returned", "done"} => ~sigRegistered

\* ------------------------------------------------------------------ C13
\* The blocking call of server a returned a bind failure (net.Listen of a grpc
\* server, the listen inside ListenAndServe of an http server).
BindFailed(a) == ServeReturned(a) /\ outcome[a][3] = BindFailure[1]

\* C13: with one registered server whose blocking call fails to bind, Run
\* returns (unless a Stop racing with Run's launches made sync.WaitGroup
\* panic) and, nothing else having happened, returns that failure; a step of a
\* Stop called after Run returned finds the context already cancelled, does
\* not park in Wait, returns what Run returned and changes nothing else.
C13_BindFailureThenStop ==
    /\ \A a \in 1..MaxServers :
          (Servers = {a} /\ BindFailed(a)) ~> (runPc = "returned" \/ panicked)
    /\ [][\A a \in 1..MaxServers :
            (/\ runPc # "returned" /\ runPc' = "returned"
             /\ Servers = {a} /\ BindFailed(a)
             /\ ~StopCalled /\ ~SigTaken /\ ~baseCancelled)
                => runResult' = outcome[a]]_vars
    /\ [][\A k \in StopCallers :
            (runPc = "returned" /\ stopPc[k] = "idle" /\ stopPc'[k] # "idle")
                => /\ CtxDone
                   /\ stopPc'[k] = "Wait"
                   /\ UNCHANGED <<baseCancelled, groupCancelled, wgCounter, errSlot,
                                  taskSt, outcome, watchSt, serveCount, stopCount,
                                  sigRegistered, signalCh, runPc, runResult>>]_vars
    /\ [][\A k \in StopCallers :
            (runPc = "returned" /\ stopPc[k] = "Wait" /\ stopPc'[k] # "Wait")
                => /\ stopPc'[k] = "returned"
                   /\ stopResult'[k] = runResult
                   /\ UNCHANGED <<baseCancelled, appCancelled, groupCancelled,
                                  wgCounter, errSlot, taskSt, outcome, watchSt,
                                  serveCount, stopCount, sigRegistered, signalCh,
                                  runPc, runResult>>]_vars

\* The only server failed to bind, Run returned that failure, and a Stop
\* returned it too, the server having been asked to stop once.
C13_Witness ==
    /\ Servers = {1}
    /\ BindFailed(1)
    /\ runPc = "returned" /\ runResult = outcome[1]
    /\ stopPc[1] = "returned" /\ stopResult[1] = outcome[1]
    /\ stopCount[1] = 1 /\ watchSt[1] = "done"
    /\ ~SigTaken /\ ~baseCancelled

\* ------------------------------------------------------------------ C14
\* C14 (as claimed): when the signal task ends through case <-a.ctx.Done(),
\* the completion of the task leaves the error kept by the group as it was.
\* The code contradicts it: the task returns a.ctx.Err(), a non-nil error, and
\* errgroup keeps it when no error was kept before (after a Stop or a
\* cancellation of the base context).
C14_CancelEdgeKeepsSlot ==
    [][(/\ taskSt[SignalTask] = "returned"
        /\ taskSt'[SignalTask] = "done"
        /\ ~SigTaken) => errSlot' = errSlot]_vars

\* ------------------------------------------------------------------ C15
\* C15: the step by which the shutdown goroutine of server a calls
\* Shutdown/GracefulStop raises the stop count of a and of no other server,
\* and no other step changes a stop count; the step by which the task of
\* server a enters (or fails) its blocking call raises the serve count of a
\* alone; and when Run has returned and every shutdown goroutine has ended,
\* the servers that were asked to stop are exactly the registered ones.
C15_WatcherStopsOwnServer ==
    /\ [][\A a \in Servers :
            (watchSt[a] = "waiting" /\ watchSt'[a] = "stopping")
                => stopCount' = [stopCount EXCEPT ![a] = @ + 1]]_vars
    /\ [][stopCount' # stopCount
            => \E a \in Servers : watchSt[a] = "waiting" /\ watchSt'[a] = "stopping"]_vars
    /\ [][\A a \in Servers :
            (taskSt[a] = "spawned" /\ taskSt'[a] # "spawned")
                => serveCount' = [serveCount EXCEPT ![a] = @ + 1]]_vars
    /\ []((runPc = "returned" /\ \A a \in Servers : watchSt[a] = "done")
            => {a \in 1..MaxServers : stopCount[a] >= 1} = Servers)

\* Two http servers, launched by the same loop, were each served once and
\* stopped once, with Run returned and both shutdown goroutines ended.
C15_Witness ==
    /\ httpServers = {1, 2}
    /\ runPc = "returned"
    /\ \A a \in Servers :
          watchSt[a] = "done" /\ stopCount[a] = 1 /\ serveCount[a] = 1

\* ------------------------------------------------------------------ C16
\* Some line written to a.logger reports the error err (its message and the
\* server it names).
ErrorLogged(err) == \E l \in logger : l[1] = err[1] /\ l[2] = err[2]

\* C16 (as claimed, for the servers that failed on their own): when the task
\* of such a server is done and its error is not the one the group kept, the
\* error was written to the log.  The code contradicts it: errgroup drops the
\* later errors and the package logs no error at all, only the start, shutdown
\* and stop notices.
C16_DiscardedFailuresLogged ==
    \A a \in Servers :
        (a \in ownFailed /\ taskSt[a] = "done" /\ errSlot # outcome[a])
            => ErrorLogged(outcome[a])

\* ------------------------------------------------------------------ C17
\* C17: a cancelled base context means a cancelled shared context; and when
\* the base context is cancelled while Run is running and Stop is never
\* called, eventually every server was asked to stop exactly once and Run has
\* returned.
C17_BaseCancelActsLikeStop ==
    /\ [](baseCancelled => CtxDone)
    /\ [](baseCancelled => \A a \in Servers : stopCount[a] <= 1)
    /\ (baseCancelled /\ runPc \notin {"idle", "returned"} /\ ~StopCalled)
          ~> (\/ runPc = "returned" /\ \A a \in Servers : stopCount[a] = 1
              \/ StopCalled)

\* Only the cancellation of the base context happened; both servers were
\* asked to stop once and Run returned.
C17_Witness ==
    /\ baseCancelled /\ ~appCancelled
    /\ ~StopCalled /\ ~SigTaken /\ ownFailed = {}
    /\ httpServers # {} /\ grpcServerInfos # {}
    /\ runPc = "returned"
    /\ \A a \in Servers : stopCount[a] = 1 /\ watchSt[a] = "done"

\* ------------------------------------------------------------------ C18
\* No caller of Stop but the first has called it.
OnlyFirstStop == \A k \in StopCallers : k # 1 => stopPc[k] = "idle"

\* Run has returned after launching and joining the signal task and the task
\* of every server, each server served once and asked to stop once.
RanToCompletion ==
    /\ runPc = "returned"
    /\ taskSt[SignalTask] = "done"
    /\ \A a \in Servers :
          taskSt[a] = "done" /\ serveCount[a] = 1 /\ stopCount[a] = 1

\* C18: before Run is called a Stop never parks in Wait and returns nil; and
\* when the first Stop has returned before Run is called, the later Run
\* launches all its tasks, every shutdown goroutine calls
\* Shutdown/GracefulStop, and Run returns (unless a further Stop is called).
C18_StopBeforeRun ==
    /\ [](\A k \in StopCallers :
            runPc = "idle" => /\ stopPc[k] \notin {"waiting", "woken"}
                              /\ stopPc[k] = "returned" => stopResult[k] = Nil)
    /\ (stopPc[1] = "returned" /\ runPc = "idle")
          ~> (RanToCompletion \/ ~OnlyFirstStop)

\* A Stop returned nil, which it does only before Run's first launch, and Run
\* then ran two servers to completion with no other event.
C18_Witness ==
    /\ stopPc[1] = "returned" /\ stopResult[1] = Nil
    /\ OnlyFirstStop
    /\ RanToCompletion
    /\ httpServers # {} /\ grpcServerInfos # {}
    /\ ~baseCancelled /\ ~SigTaken /\ ownFailed = {}

\* ------------------------------------------------------------------ C19
\* C19: whenever Run has returned the shared context is cancelled, and every
\* shutdown goroutine that was started then eventually gets past
\* <-a.ctx.Done(), calls Shutdown/GracefulStop on its server and ends.
C19_NoWatcherLeftWaiting ==
    /\ [](runPc = "returned" => CtxDone)
    /\ \A a \in 1..MaxServers :
          (runPc = "returned" /\ watchSt[a] # "none")
              ~> (watchSt[a] = "done" /\ stopCount[a] = 1)

\* Run returned because server 1 failed on its own, nothing else having
\* happened, and the shutdown goroutine of that server has called its
\* Shutdown/GracefulStop and ended.
C19_Witness ==
    /\ runPc = "returned"
    /\ ownFailed = {1}
    /\ watchSt[1] = "done" /\ stopCount[1] = 1
    /\ ~StopCalled /\ ~baseCancelled /\ ~SigTaken

====
